---- MODULE Spec2Model ----
(***************************************************************************)
(* External sort of key:value record files (sort_bigdatafile.cpp).         *)
(* A text line is a sequence of one-character strings; a file is a         *)
(* sequence of lines (getline strips the newline, operator<< "\n" adds     *)
(* it).  The sorter is a sequential program: pc is its position.           *)
(***************************************************************************)
EXTENDS FiniteSets, Integers, Sequences, TLC

\* ------------------------------------------------------------------ bounds
MaxLines == 3        \* longest input file, in lines
MaxBatchSize == 2    \* BATCH_SIZE ranges over 1..MaxBatchSize
MaxGarbage == 1      \* an indeterminate size_t reads as a value of 0..MaxGarbage
MaxLineLen == 4      \* longest line given to parseKeyValue on its own

\* the state of a path: no file, or a file with these lines
NoFile == [exists |-> FALSE, lines |-> <<>>]

File(content) == [exists |-> TRUE, lines |-> content]
npos == -1           \* std::string::npos

\* ------------------------------------------------------------ text helpers
Digits == <<"0", "1", "2", "3", "4", "5", "6", "7", "8", "9">>

IsDigit(c) == \E d \in 1..10 : Digits[d] = c

DigitVal(c) == (CHOOSE d \in 1..10 : Digits[d] = c) - 1

\* find written as rfind: the position of the last ch
find_last(line, ch) ==
  IF \E i \in 1..Len(line) : line[i] = ch
  THEN (CHOOSE i \in 1..Len(line) :
          line[i] = ch /\ \A j \in (i + 1)..Len(line) : line[j] # ch) - 1
  ELSE npos

\* std::string::find(ch): 0-based position of the first ch, or npos
find(line, ch) ==
  IF \E i \in 1..Len(line) : line[i] = ch
  THEN (CHOOSE i \in 1..Len(line) :
          line[i] = ch /\ \A j \in 1..(i - 1) : line[j] # ch) - 1
  ELSE npos

\* std::string::substr(pos): the text from 0-based position pos to the end
substr(line, pos) == SubSeq(line, pos + 1, Len(line))

\* number of leading decimal digits of text
RECURSIVE DigitPrefixLen(_)
DigitPrefixLen(text) ==
  IF text # <<>> /\ IsDigit(Head(text))
  THEN 1 + DigitPrefixLen(Tail(text))
  ELSE 0

RECURSIVE DigitsToNat(_)
DigitsToNat(digs) ==
  IF digs = <<>> THEN 0
  ELSE 10 * DigitsToNat(SubSeq(digs, 1, Len(digs) - 1)) + DigitVal(digs[Len(digs)])

RECURSIVE StripZeros(_)
StripZeros(digs) ==
  IF digs # <<>> /\ Head(digs) = "0" THEN StripZeros(Tail(digs)) ELSE digs

\* decimal digits of UINT64_MAX = 18446744073709551615
U64MaxDigits ==
  <<"1","8","4","4","6","7","4","4","0","7","3","7","0","9","5","5","1","6","1","5">>

RECURSIVE LexLeq(_, _)
LexLeq(a, b) ==
  IF a = <<>> THEN TRUE
  ELSE IF DigitVal(Head(a)) # DigitVal(Head(b))
       THEN DigitVal(Head(a)) < DigitVal(Head(b))
       ELSE LexLeq(Tail(a), Tail(b))

FitsU64(digs) ==
  LET s == StripZeros(digs) IN
    \/ Len(s) < Len(U64MaxDigits)
    \/ Len(s) = Len(U64MaxDigits) /\ LexLeq(s, U64MaxDigits)

\* std::from_chars(first, last, uint64_t&): converts the longest prefix of
\* digits; no sign, no whitespace; ptr is the 0-based end of what was used.
\* value is meaningful only when ec = "ok" (the argument is left unmodified
\* otherwise).
from_chars(text) ==
  LET n == DigitPrefixLen(text) IN
    IF n = 0 THEN [ec |-> "invalid_argument", value |-> 0, ptr |-> 0]
    ELSE IF ~FitsU64(SubSeq(text, 1, n))
         THEN [ec |-> "result_out_of_range", value |-> 0, ptr |-> n]
         ELSE [ec |-> "ok", value |-> DigitsToNat(SubSeq(text, 1, n)), ptr |-> n]

\* operator<<(uint64_t): decimal digits, no leading zeros, "0" for zero
RECURSIVE to_string(_)
to_string(n) ==
  IF n < 10 THEN <<Digits[n + 1]>>
  ELSE Append(to_string(n \div 10), Digits[(n % 10) + 1])

\* --------------------------------------------------------------- the codec
\* parseKeyValue(line, pair): ok is the return value, pair the out-parameter
\* after the call (originalIndex is never written).
parseKeyValue(line, pair) ==
  LET colonPos == find(line, ":") IN
    IF colonPos = npos THEN [ok |-> FALSE, pair |-> pair]
    ELSE LET result == from_chars(SubSeq(line, 1, colonPos)) IN
      IF result.ec # "ok" THEN [ok |-> FALSE, pair |-> pair]
      ELSE [ok |-> TRUE,
            pair |-> [key |-> result.value,
                      value |-> IF colonPos + 1 < Len(line)
                                THEN substr(line, colonPos + 1)
                                ELSE <<>>,
                      originalIndex |-> pair.originalIndex]]

\* output << pair.key << ":" << pair.value << "\n"
FormatLine(pair) == to_string(pair.key) \o <<":">> \o pair.value

\* ------------------------------------------------ calculator: numbers
\* A double is a sign s, and a magnitude n/d in lowest terms: d >= 1 for a
\* finite number (zero is 0/1 and keeps its sign), 1/0 for an infinity, 0/0
\* for a NaN.  Sums, products and quotients of the small numbers the model
\* computes with are exact.
RECURSIVE GCD(_, _)
GCD(a, b) == IF b = 0 THEN a ELSE GCD(b, a % b)

Abs(k) == IF k < 0 THEN -k ELSE k

Norm(s, n, d) == [s |-> s, n |-> n \div GCD(n, d), d |-> d \div GCD(n, d)]

Num(k) == [s |-> IF k < 0 THEN -1 ELSE 1, n |-> Abs(k), d |-> 1]

NaN == [s |-> 1, n |-> 0, d |-> 0]

Inf(s) == [s |-> s, n |-> 1, d |-> 0]

Zero(s) == [s |-> s, n |-> 0, d |-> 1]

IsNaN(v) == v.n = 0 /\ v.d = 0

IsInf(v) == v.n = 1 /\ v.d = 0

IsFinite(v) == v.d >= 1

\* v == 0 in C: both zeros, no NaN
IsZero(v) == IsFinite(v) /\ v.n = 0

\* v < 0 in C
IsNegative(v) == ~IsNaN(v) /\ ~IsZero(v) /\ v.s = -1

\* v == floor(v) in C
IsWhole(v) == IsInf(v) \/ (IsFinite(v) /\ v.d = 1)

Neg(v) == IF IsNaN(v) THEN v ELSE [v EXCEPT !.s = -v.s]

Add(a, b) ==
  IF IsNaN(a) \/ IsNaN(b) THEN NaN
  ELSE IF IsInf(a) /\ IsInf(b) THEN (IF a.s = b.s THEN a ELSE NaN)
  ELSE IF IsInf(a) THEN a
  ELSE IF IsInf(b) THEN b
  ELSE LET num == a.s * a.n * b.d + b.s * b.n * a.d IN
         IF num = 0
         THEN Zero(IF a.n = 0 /\ b.n = 0 /\ a.s = -1 /\ b.s = -1 THEN -1 ELSE 1)
         ELSE Norm(IF num < 0 THEN -1 ELSE 1, Abs(num), a.d * b.d)

Sub(a, b) == Add(a, Neg(b))

Mul(a, b) ==
  IF IsNaN(a) \/ IsNaN(b) THEN NaN
  ELSE IF (IsInf(a) /\ IsZero(b)) \/ (IsZero(a) /\ IsInf(b)) THEN NaN
  ELSE IF IsInf(a) \/ IsInf(b) THEN Inf(a.s * b.s)
  ELSE Norm(a.s * b.s, a.n * b.n, a.d * b.d)

Div(a, b) ==
  IF IsNaN(a) \/ IsNaN(b) THEN NaN
  ELSE IF (IsInf(a) /\ IsInf(b)) \/ (IsZero(a) /\ IsZero(b)) THEN NaN
  ELSE IF IsInf(a) \/ IsZero(b) THEN Inf(a.s * b.s)
  ELSE IF IsInf(b) THEN Zero(a.s * b.s)
  ELSE Norm(a.s * b.s, a.n * b.d, a.d * b.n)

RECURSIVE IntPow(_, _)
IntPow(base, k) == IF k = 0 THEN 1 ELSE base * IntPow(base, k - 1)

\* pow(a, b) of <math.h>.  exact is FALSE where the result is a number the
\* representation does not hold (a positive base to a fractional power).
Pow(a, b) ==
  LET odd == IsFinite(b) /\ b.d = 1 /\ b.n % 2 = 1
      sgn == IF a.s = -1 /\ odd THEN -1 ELSE 1
      Val(v) == [exact |-> TRUE, value |-> v]
  IN
  IF IsZero(b) \/ a = Num(1) THEN Val(Num(1))
  ELSE IF IsNaN(a) \/ IsNaN(b) THEN Val(NaN)
  ELSE IF IsInf(b)
       THEN IF a.n = a.d THEN Val(Num(1))
            ELSE IF (IsFinite(a) /\ a.n < a.d) <=> (b.s = 1)
                 THEN Val(Zero(1)) ELSE Val(Inf(1))
  ELSE IF IsZero(a) \/ IsInf(a)
       THEN IF IsZero(a) <=> (b.s = 1) THEN Val(Zero(sgn)) ELSE Val(Inf(sgn))
  ELSE IF b.d = 1
       THEN IF b.s = 1
            THEN Val(Norm(sgn, IntPow(a.n, b.n), IntPow(a.d, b.n)))
            ELSE Val(Norm(sgn, IntPow(a.d, b.n), IntPow(a.n, b.n)))
  ELSE IF a.s = -1 THEN Val(NaN)
  ELSE [exact |-> FALSE, value |-> NaN]

\* evaluator.c, #define PI 3.1415926535, held as the fraction 355/113
PI == [s |-> 1, n |-> 355, d |-> 113]

\* factorial(n), lines 24-31.  For +infinity the recursion of the source
\* never ends: returns |-> FALSE.
RECURSIVE factorial(_)
factorial(n) ==
  IF IsNegative(n) \/ ~IsWhole(n) THEN [returns |-> TRUE, value |-> NaN]
  ELSE IF IsInf(n) THEN [returns |-> FALSE, value |-> NaN]
  ELSE IF n = Zero(1) \/ n = Zero(-1) \/ n = Num(1)
       THEN [returns |-> TRUE, value |-> Num(1)]
  ELSE [returns |-> TRUE, value |-> Mul(n, factorial(Sub(n, Num(1))).value)]

\* -------------------------------------------------- calculator: lexer
\* An expression is the sequence of its lexemes, the blanks between them
\* skipped by skip_whitespace.  The lexer's position counts lexemes.
NumberLexemes == {"0", "1", "2"}

\* strtod on a number lexeme
strtod(lexeme) == CASE lexeme = "0" -> Num(0)
                    [] lexeme = "1" -> Num(1)
                    [] lexeme = "2" -> Num(2)

\* lexemes that begin with a letter or an underscore
IdentifierLexemes == {"x", "y", "z", "f", "PI"}

OperatorLexemes == {"+", "-", "*", "/", "^", "!"}

Token(type) == [type |-> type, number |-> Zero(1), identifier |-> "", oper |-> ""]

lexer_create(input) == [input |-> input, position |-> 0]

\* lexer_next_token: the token and the lexer after the call
lexer_next_token(lexer) ==
  IF lexer.position >= Len(lexer.input)
  THEN [token |-> Token("TOKEN_EOF"), lexer |-> lexer]
  ELSE
    LET current == lexer.input[lexer.position + 1]
        next    == [lexer EXCEPT !.position = @ + 1]
        Simple(type) == [token |-> Token(type), lexer |-> next]
    IN
    IF current \in NumberLexemes
    THEN [token |-> [Token("TOKEN_NUMBER") EXCEPT !.number = strtod(current)],
          lexer |-> next]
    ELSE IF current \in IdentifierLexemes
    THEN [token |-> [Token("TOKEN_IDENTIFIER") EXCEPT !.identifier = current],
          lexer |-> next]
    ELSE IF current \in OperatorLexemes
    THEN [token |-> [Token("TOKEN_OPERATOR") EXCEPT !.oper = current],
          lexer |-> next]
    ELSE IF current = "(" THEN Simple("TOKEN_LPAREN")
    ELSE IF current = ")" THEN Simple("TOKEN_RPAREN")
    ELSE IF current = "{" THEN Simple("TOKEN_LBRACE")
    ELSE IF current = "}" THEN Simple("TOKEN_RBRACE")
    ELSE IF current = "[" THEN Simple("TOKEN_LBRACKET")
    ELSE IF current = "]" THEN Simple("TOKEN_RBRACKET")
    ELSE [token |-> Token("TOKEN_ERROR"), lexer |-> lexer]

\* ---------------------------------------------------- calculator: AST
NULL == [type |-> "NULL"]

IsNull(node) == node.type = "NULL"

ast_create_number(value) == [type |-> "AST_NUMBER", number |-> value]

ast_create_variable(name) == [type |-> "AST_VARIABLE", variable |-> name]

ast_create_unary_op(oper, operand) ==
  [type |-> "AST_UNARY_OP", oper |-> oper, operand |-> operand]

ast_create_binary_op(oper, left, right) ==
  [type |-> "AST_BINARY_OP", oper |-> oper, left |-> left, right |-> right]

\* ------------------------------------------------- calculator: parser
get_operator_precedence_Flat(op) ==
  CASE op \in {"+", "-", "*", "/"} -> 1
    [] op = "^" -> 3
    [] op = "!" -> 4
    [] OTHER -> 0

get_operator_precedence(op) ==
  CASE op \in {"+", "-"} -> 1
    [] op \in {"*", "/"} -> 2
    [] op = "^" -> 3
    [] op = "!" -> 4
    [] OTHER -> 0

parser_create(lexer) ==
  LET t == lexer_next_token(lexer) IN
    [lexer |-> t.lexer, current_token |-> t.token, has_error |-> FALSE]

advance(parser) ==
  LET t == lexer_next_token(parser.lexer) IN
    [parser EXCEPT !.lexer = t.lexer, !.current_token = t.token]

IsOper(parser, op) ==
  parser.current_token.type = "TOKEN_OPERATOR" /\ parser.current_token.oper = op

Parsed(node, parser) == [node |-> node, parser |-> parser]

Failed(parser) == [node |-> NULL, parser |-> [parser EXCEPT !.has_error = TRUE]]

\* the optional postfix factorial after a primary expression
PostfixFactorial(node, parser) ==
  IF IsOper(parser, "!")
  THEN Parsed(ast_create_unary_op("!", node), advance(parser))
  ELSE Parsed(node, parser)

expected_close(type) == CASE type = "TOKEN_LPAREN" -> "TOKEN_RPAREN"
                          [] type = "TOKEN_LBRACE" -> "TOKEN_RBRACE"
                          [] type = "TOKEN_LBRACKET" -> "TOKEN_RBRACKET"
                          [] OTHER -> "TOKEN_ERROR"

\* a local variable: body applied to the value computed for it once
With(value, body(_)) == CHOOSE out \in {body(v) : v \in {value}} : TRUE

RECURSIVE parse_primary(_), parse_unary(_), parse_binary(_, _)
RECURSIVE parse_binary_loop(_, _, _), parse_expression(_)

parse_primary(parser) ==
  With(parser.current_token, LAMBDA token :
  With(advance(parser), LAMBDA p1 :
    CASE token.type = "TOKEN_NUMBER" ->
           PostfixFactorial(ast_create_number(token.number), p1)
      [] token.type = "TOKEN_IDENTIFIER" ->
           IF p1.current_token.type = "TOKEN_LPAREN"
           THEN With(advance(p1), LAMBDA p2 :
                With(parse_expression(p2), LAMBDA arg :
                  IF IsNull(arg.node) THEN arg
                  ELSE IF arg.parser.current_token.type # "TOKEN_RPAREN"
                       THEN Failed(arg.parser)
                       ELSE Parsed(ast_create_unary_op(token.identifier, arg.node),
                                   advance(arg.parser))))
           ELSE PostfixFactorial(ast_create_variable(token.identifier), p1)
      [] token.type \in {"TOKEN_LPAREN", "TOKEN_LBRACE", "TOKEN_LBRACKET"} ->
           With(parse_expression(p1), LAMBDA expr :
             IF IsNull(expr.node) THEN expr
             ELSE IF expr.parser.current_token.type # expected_close(token.type)
                  THEN Failed(expr.parser)
                  ELSE PostfixFactorial(expr.node, advance(expr.parser)))
      [] OTHER -> Failed(parser)))

parse_unary(parser) ==
  IF IsOper(parser, "-") \/ IsOper(parser, "+")
  THEN With(parser.current_token.oper, LAMBDA op :
       With(advance(parser), LAMBDA p1 :
       With(parse_unary(p1), LAMBDA operand :
         IF IsNull(operand.node) THEN operand
         ELSE IF op = "+" THEN operand
         ELSE Parsed(ast_create_unary_op("-", operand.node), operand.parser))))
  ELSE parse_primary(parser)

parse_binary(parser, precedence) ==
  With(parse_unary(parser), LAMBDA left :
    IF IsNull(left.node) THEN left
    ELSE parse_binary_loop(left.parser, precedence, left.node))

\* the while loop of parse_binary, left being the tree built so far
parse_binary_loop(parser, precedence, left) ==
  IF parser.current_token.type # "TOKEN_OPERATOR" THEN Parsed(left, parser)
  ELSE
    With(parser.current_token.oper, LAMBDA op :
    With(get_operator_precedence(op), LAMBDA op_precedence :
      IF op_precedence <= precedence THEN Parsed(left, parser)
      ELSE With(advance(parser), LAMBDA p1 :
        IF /\ p1.current_token.type = "TOKEN_OPERATOR"
           /\ p1.current_token.oper # "!" /\ p1.current_token.oper # "-"
        THEN Failed(p1)
        ELSE With(parse_binary(p1, op_precedence), LAMBDA right :
          IF IsNull(right.node) THEN right
          ELSE With(ast_create_binary_op(op, left, right.node), LAMBDA node :
               With(right.parser, LAMBDA p2 :
                 parse_binary_loop(p2, precedence, node)))))))

parse_expression(parser) == parse_binary(parser, 0)

parser_parse_NoEofCheck(parser) == parse_expression(parser)

parser_parse(parser) ==
  With(parse_expression(parser), LAMBDA result :
    IF ~IsNull(result.node) /\ result.parser.current_token.type # "TOKEN_EOF"
    THEN Failed(result.parser)
    ELSE result)

\* ------------------------------------------ calculator: variable store
\* calculator.c, #define MAX_VARIABLES
MAX_VARIABLES == 100

\* calc_create: the fields of calculator_ctx_t, variables holding the
\* num_variables entries in use
calc_create == [variables |-> <<>>, num_variables |-> 0]

\* the entries whose name compares equal, in the order of the linear search
Found(ctx, name) == {i \in 1..ctx.num_variables : ctx.variables[i].name = name}

First(S) == CHOOSE i \in S : \A j \in S : i <= j

calc_set_variable_Append(ctx, name, value) ==
  IF ctx.num_variables >= MAX_VARIABLES
  THEN [err |-> "CALC_ERROR_SYNTAX", ctx |-> ctx]
  ELSE [err |-> "CALC_SUCCESS",
        ctx |-> [variables |-> Append(ctx.variables,
                                      [name |-> name, value |-> value]),
                 num_variables |-> ctx.num_variables + 1]]

\* calc_set_variable without the capacity test of lines 71-73
calc_set_variable_NoLimit(ctx, name, value) ==
  IF Found(ctx, name) # {}
  THEN [err |-> "CALC_SUCCESS",
        ctx |-> [ctx EXCEPT !.variables[First(Found(ctx, name))].value = value]]
  ELSE [err |-> "CALC_SUCCESS",
        ctx |-> [variables |-> Append(ctx.variables,
                                      [name |-> name, value |-> value]),
                 num_variables |-> ctx.num_variables + 1]]

\* calc_set_variable: the error code and the context after the call
calc_set_variable(ctx, name, value) ==
  IF Found(ctx, name) # {}
  THEN [err |-> "CALC_SUCCESS",
        ctx |-> [ctx EXCEPT !.variables[First(Found(ctx, name))].value = value]]
  ELSE IF ctx.num_variables >= MAX_VARIABLES
  THEN [err |-> "CALC_ERROR_SYNTAX", ctx |-> ctx]
  ELSE [err |-> "CALC_SUCCESS",
        ctx |-> [variables |-> Append(ctx.variables,
                                      [name |-> name, value |-> value]),
                 num_variables |-> ctx.num_variables + 1]]

\* calc_get_variable: the error code and *value after the call
calc_get_variable(ctx, name, value) ==
  IF Found(ctx, name) # {}
  THEN [err |-> "CALC_SUCCESS",
        value |-> ctx.variables[First(Found(ctx, name))].value]
  ELSE [err |-> "CALC_ERROR_UNDEFINED_VAR", value |-> value]

\* ---------------------------------------------- calculator: evaluator
\* Besides the four codes of calc_error_t an evaluation has two outcomes:
\* "NO_RETURN" where the recursion of factorial never ends, and "INEXACT"
\* where the result is a number the representation does not hold.
Done(err, result) == [err |-> err, result |-> result]

\* the operator switch of case AST_UNARY_OP, operand evaluated
unary_operation(oper, operand, result) ==
  CASE oper = "-" -> Done("CALC_SUCCESS", Neg(operand))
    [] oper = "sin" ->
         IF IsZero(operand) THEN Done("CALC_SUCCESS", operand)
         ELSE IF IsFinite(operand) THEN Done("INEXACT", result)
         ELSE Done("CALC_SUCCESS", NaN)
    [] oper = "cos" ->
         IF IsZero(operand) THEN Done("CALC_SUCCESS", Num(1))
         ELSE IF IsFinite(operand) THEN Done("INEXACT", result)
         ELSE Done("CALC_SUCCESS", NaN)
    [] oper = "!" ->
         LET f == factorial(operand) IN
         IF ~f.returns THEN Done("NO_RETURN", result)
         ELSE IF IsNaN(f.value) THEN Done("CALC_ERROR_INVALID_OPERATION", f.value)
         ELSE Done("CALC_SUCCESS", f.value)
    [] OTHER -> Done("CALC_ERROR_INVALID_OPERATION", result)

binary_operation_NoZeroCheck(oper, left, right, result) ==
  CASE oper = "+" -> Done("CALC_SUCCESS", Add(left, right))
    [] oper = "-" -> Done("CALC_SUCCESS", Sub(left, right))
    [] oper = "*" -> Done("CALC_SUCCESS", Mul(left, right))
    [] oper = "/" -> Done("CALC_SUCCESS", Div(left, right))
    [] oper = "^" -> IF Pow(left, right).exact
                     THEN Done("CALC_SUCCESS", Pow(left, right).value)
                     ELSE Done("INEXACT", result)
    [] OTHER -> Done("CALC_ERROR_INVALID_OPERATION", result)

\* the operator switch of case AST_BINARY_OP, both operands evaluated
binary_operation(oper, left, right, result) ==
  CASE oper = "+" -> Done("CALC_SUCCESS", Add(left, right))
    [] oper = "-" -> Done("CALC_SUCCESS", Sub(left, right))
    [] oper = "*" -> Done("CALC_SUCCESS", Mul(left, right))
    [] oper = "/" -> IF IsZero(right)
                     THEN Done("CALC_ERROR_INVALID_OPERATION", result)
                     ELSE Done("CALC_SUCCESS", Div(left, right))
    [] oper = "^" -> IF Pow(left, right).exact
                     THEN Done("CALC_SUCCESS", Pow(left, right).value)
                     ELSE Done("INEXACT", result)
    [] OTHER -> Done("CALC_ERROR_INVALID_OPERATION", result)

\* evaluator_evaluate: the error code and *result after the call.  The
\* locals that receive the operands are read only after a successful
\* evaluation has written them; result stands for their value before it.
RECURSIVE evaluator_evaluate(_, _, _)
evaluator_evaluate(ctx, node, result) ==
  CASE IsNull(node) -> Done("CALC_ERROR_SYNTAX", result)
    [] node.type = "AST_NUMBER" -> Done("CALC_SUCCESS", node.number)
    [] node.type = "AST_VARIABLE" ->
         IF node.variable = "PI" THEN Done("CALC_SUCCESS", PI)
         ELSE With(calc_get_variable(ctx, node.variable, result), LAMBDA got :
                IF got.err # "CALC_SUCCESS"
                THEN Done("CALC_ERROR_UNDEFINED_VAR", result)
                ELSE Done("CALC_SUCCESS", got.value))
    [] node.type = "AST_UNARY_OP" ->
         With(evaluator_evaluate(ctx, node.operand, result), LAMBDA operand :
           IF operand.err # "CALC_SUCCESS" THEN Done(operand.err, result)
           ELSE unary_operation(node.oper, operand.result, result))
    [] node.type = "AST_BINARY_OP" ->
         With(evaluator_evaluate(ctx, node.left, result), LAMBDA left :
           IF left.err # "CALC_SUCCESS" THEN Done(left.err, result)
           ELSE With(evaluator_evaluate(ctx, node.right, result), LAMBDA right :
                  IF right.err # "CALC_SUCCESS" THEN Done(right.err, result)
                  ELSE binary_operation(node.oper, left.result, right.result,
                                        result)))

\* calc_evaluate: the error code, *result after the call, and the tree
calc_evaluate(ctx, expression, result) ==
  With(parser_create(lexer_create(expression)), LAMBDA parser :
  With(parser_parse(parser).node, LAMBDA ast :
    IF IsNull(ast)
    THEN [err |-> "CALC_ERROR_SYNTAX", result |-> result, ast |-> NULL]
    ELSE With(evaluator_evaluate(ctx, ast, result), LAMBDA e :
           [err |-> e.err, result |-> e.result, ast |-> ast])))

\* ------------------------------------------------------------------ state
VARIABLES
  inputFile,       \* content of the file at inputPath: a sequence of lines
  BATCH_SIZE,      \* FileSorter::BATCH_SIZE
  pc,              \* position of the program
  inputPos,        \* lines of inputFile already consumed by getline
  tempFileCount,   \* sort(): tempFileCount
  linesProcessed,  \* sort(): linesProcessed
  tempFiles,       \* batch index -> content of outputPath + ".temp" + index
  outFile,         \* the file at outputPath: NoFile or File(lines)
  outBefore,       \* what was at outputPath when the program started
  files,           \* mergeTempFiles(): std::vector<FileEntry> files
  sortResult,      \* return value of sort(), once pc is "returned" or "exit"
  exitCode,        \* return value of main(), -1 until it returns
  failures,        \* the opens/creations the file system has refused so far
  accepted,        \* history: the pairs pushed to a batch, in reading order,
                   \* each with the 0-based number of its input line
  written,         \* history: batch index -> the sorted vector written as run
  lastMerge,       \* history: the last iteration of the merge loop that
                   \* wrote a record: the run it took the record from and
                   \* files as it was when the scan ran
  line,            \* argument of a stand-alone parseKeyValue call
  pair,            \* its out-parameter
  parsed,          \* its return value, once pc is "parsed"
  variables,       \* calculator_ctx_t: the entries of variables[] in use
  num_variables,   \* calculator_ctx_t: num_variables
  expression,      \* argument of a stand-alone calc_evaluate call
  calcCall,        \* the last call made on the calculator context
  calcErr,         \* its return value
  calcResult,      \* the caller's double behind its out-parameter
  calcAst,         \* the tree parser_parse returned to calc_evaluate
  lastSet          \* history: name -> value of the last set that succeeded

vars == <<inputFile, BATCH_SIZE, pc, inputPos, tempFileCount, linesProcessed,
          tempFiles, outFile, outBefore, files, sortResult, exitCode,
          failures, accepted, written, lastMerge, line, pair, parsed, variables,
          num_variables, expression, calcCall, calcErr, calcResult, calcAst,
          lastSet>>

env == <<inputFile, BATCH_SIZE, outBefore>>
codecVars == <<line, pair, parsed>>
histVars == <<accepted, written, lastMerge>>

\* no record merged yet
NoMerge == [run |-> -1, heads |-> <<>>]
calcVars == <<variables, num_variables, expression, calcCall, calcErr,
              calcResult, calcAst, lastSet>>
sorterVars == <<env, inputPos, tempFileCount, linesProcessed, tempFiles,
                outFile, files, sortResult, exitCode, failures, codecVars,
                histVars>>

NoCall == [fn |-> "none", name |-> "", value |-> Zero(1), expression |-> <<>>]

\* no calculator context in use
CalcIdle ==
  /\ variables = <<>>
  /\ num_variables = 0
  /\ expression = <<>>
  /\ calcCall = NoCall
  /\ calcErr = "CALC_SUCCESS"
  /\ calcResult = Zero(1)
  /\ calcAst = NULL
  /\ lastSet = <<>>

BoundedSeq(S, n) == UNION {[1..k -> S] : k \in 0..n}

\* the lines an input file is made of
InputLines ==
  { <<"1", ":", "a">>, <<"1", ":", "b">>, <<"2", ":", "a">>, <<"0", ":">>,
    <<"x">>, <<"1", "x", ":", "b">> }

\* a file left at outputPath by an earlier program
OldOutput == File(<< <<"9", ":", "o">> >>)

\* a KeyValuePair whose std::string member is default-constructed
NewPair(idx) == [key |-> 0, value |-> <<>>, originalIndex |-> idx]

Init ==
  /\ inputFile \in BoundedSeq(InputLines, MaxLines)
  /\ BATCH_SIZE \in 1..MaxBatchSize
  /\ outFile \in {NoFile, OldOutput}
  /\ outBefore = outFile
  /\ pc = "sort"
  /\ inputPos = 0
  /\ tempFileCount = 0
  /\ linesProcessed = 0
  /\ tempFiles = <<>>
  /\ files = <<>>
  /\ sortResult = FALSE
  /\ exitCode = -1
  /\ failures = {}
  /\ accepted = <<>>
  /\ written = <<>>
  /\ lastMerge = NoMerge
  /\ line = <<>>
  /\ pair = NewPair(0)
  /\ parsed = FALSE
  /\ CalcIdle

\* ---------------------------------------------------------- batch phase
\* sort(), lines 216-223: open the input
SortOpenInput ==
  /\ pc = "sort"
  /\ \E ok \in BOOLEAN :
       IF ok
       THEN /\ pc' = "batch"
            /\ UNCHANGED <<sortResult, failures>>
       ELSE /\ pc' = "returned"
            /\ sortResult' = FALSE
            /\ failures' = failures \cup {"open_input"}
  /\ UNCHANGED <<env, inputPos, tempFileCount, linesProcessed, tempFiles,
                 outFile, files, exitCode, codecVars, histVars,
                 calcVars>>

\* the 0-based numbers of the input lines from..(to - 1) that sortBatch
\* pushes to its batch
RECURSIVE OkPositions(_, _)
OkPositions(from, to) ==
  IF from >= to THEN <<>>
  ELSE (IF parseKeyValue(inputFile[from + 1], NewPair(0)).ok
        THEN <<from>> ELSE <<>>) \o OkPositions(from + 1, to)

\* ReadBatch whose originalIndex starts again at 0 in every window
RECURSIVE ReadBatch_Reset(_, _, _)
ReadBatch_Reset(pos, batch, lineIndex) ==
  IF Len(batch) < BATCH_SIZE /\ pos < Len(inputFile)
  THEN LET r == parseKeyValue(inputFile[pos + 1], NewPair(lineIndex))
       IN ReadBatch_Reset(pos + 1,
                          IF r.ok THEN Append(batch, r.pair) ELSE batch,
                          lineIndex + 1)
  ELSE [pos |-> pos, batch |-> batch, lineIndex |-> lineIndex]

\* ReadBatch that counts only the lines it accepts
RECURSIVE ReadBatch_CountAccepted(_, _, _)
ReadBatch_CountAccepted(pos, batch, lineIndex) ==
  IF Len(batch) < BATCH_SIZE /\ pos < Len(inputFile)
  THEN LET r == parseKeyValue(inputFile[pos + 1],
                              NewPair(linesProcessed + lineIndex))
       IN ReadBatch_CountAccepted(pos + 1,
                    IF r.ok THEN Append(batch, r.pair) ELSE batch,
                    IF r.ok THEN lineIndex + 1 ELSE lineIndex)
  ELSE [pos |-> pos, batch |-> batch, lineIndex |-> lineIndex]

\* sortBatch(), lines 64-76: the read loop, from input position pos
RECURSIVE ReadBatch(_, _, _)
ReadBatch(pos, batch, lineIndex) ==
  IF Len(batch) < BATCH_SIZE /\ pos < Len(inputFile)
  THEN LET r == parseKeyValue(inputFile[pos + 1],
                              NewPair(linesProcessed + lineIndex))
       IN ReadBatch(pos + 1,
                    IF r.ok THEN Append(batch, r.pair) ELSE batch,
                    lineIndex + 1)
  ELSE [pos |-> pos, batch |-> batch, lineIndex |-> lineIndex]

\* InsertByKey that puts x in front of the elements with an equal key
RECURSIVE InsertByKey_BeforeEqual(_, _)
InsertByKey_BeforeEqual(sorted, x) ==
  IF sorted = <<>> THEN <<x>>
  ELSE IF x.key <= Head(sorted).key
       THEN <<x>> \o sorted
       ELSE <<Head(sorted)>> \o InsertByKey_BeforeEqual(Tail(sorted), x)

\* insertion of x behind every element that does not compare greater
RECURSIVE InsertByKey(_, _)
InsertByKey(sorted, x) ==
  IF sorted = <<>> THEN <<x>>
  ELSE IF x.key < Head(sorted).key
       THEN <<x>> \o sorted
       ELSE <<Head(sorted)>> \o InsertByKey(Tail(sorted), x)

\* std::stable_sort with the comparator a.key < b.key
RECURSIVE stable_sort(_)
stable_sort(batch) ==
  IF batch = <<>> THEN <<>>
  ELSE InsertByKey(stable_sort(SubSeq(batch, 1, Len(batch) - 1)),
                   batch[Len(batch)])

FormatAll(batch) == [i \in 1..Len(batch) |-> FormatLine(batch[i])]

\* one iteration of sort()'s loop (lines 226-228): a call of sortBatch and,
\* when it returns true, tempFileCount++
SortBatch ==
  /\ pc = "batch"
  /\ LET rb == ReadBatch(inputPos, <<>>, 0) IN
       /\ inputPos' = rb.pos
       /\ accepted' = accepted \o
            [i \in 1..Len(rb.batch) |->
               [pair |-> rb.batch[i],
                lineNo |-> OkPositions(inputPos, rb.pos)[i]]]
       /\ IF rb.batch = <<>>
          THEN /\ pc' = "after_batches"
               /\ UNCHANGED <<tempFileCount, linesProcessed, tempFiles, failures,
                              written>>
          ELSE \E ok \in BOOLEAN :
                 IF ok
                 THEN /\ tempFiles' = (tempFileCount :> FormatAll(stable_sort(rb.batch)))
                                         @@ tempFiles
                      /\ written' = (tempFileCount :> stable_sort(rb.batch))
                                       @@ written
                      /\ linesProcessed' = linesProcessed + rb.lineIndex
                      /\ tempFileCount' = tempFileCount + 1
                      /\ pc' = "batch"
                      /\ UNCHANGED failures
                 ELSE /\ failures' = failures \cup {"create_temp"}
                      /\ pc' = "after_batches"
                      /\ UNCHANGED <<tempFileCount, linesProcessed, tempFiles,
                                     written>>
  /\ UNCHANGED <<env, outFile, files, sortResult, exitCode, lastMerge,
                 codecVars, calcVars>>

\* SortNoRuns that takes an input without records for an error
SortNoRuns_Error ==
  /\ pc = "after_batches"
  /\ tempFileCount = 0
  /\ sortResult' = FALSE
  /\ pc' = "returned"
  /\ UNCHANGED <<env, inputPos, tempFileCount, linesProcessed, tempFiles,
                 outFile, files, exitCode, failures, codecVars, histVars,
                 calcVars>>

\* sort(), lines 233-241: no run was written
SortNoRuns ==
  /\ pc = "after_batches"
  /\ tempFileCount = 0
  /\ \E ok \in BOOLEAN :
       IF ok
       THEN /\ outFile' = File(<<>>)
            /\ sortResult' = TRUE
            /\ UNCHANGED failures
       ELSE /\ sortResult' = FALSE
            /\ failures' = failures \cup {"create_output"}
            /\ UNCHANGED outFile
  /\ pc' = "returned"
  /\ UNCHANGED <<env, inputPos, tempFileCount, linesProcessed, tempFiles,
                 files, exitCode, codecVars, histVars,
                 calcVars>>

\* ---------------------------------------------------------- merge phase
\* RemoveFiles whose loop stops one file short
RemoveFiles_KeepLast(fs, idxs) ==
  [i \in (DOMAIN fs) \ {j \in idxs : \E k \in idxs : k > j} |-> fs[i]]

RemoveFiles(fs, idxs) == [i \in (DOMAIN fs) \ idxs |-> fs[i]]

\* mergeTempFiles(1), lines 111-126: copy the only run to the output.
\* (tempFileCount = 0, lines 106-108, cannot happen: sort() calls
\* mergeTempFiles only with tempFileCount # 0.)
MergeOneFile ==
  /\ pc = "after_batches"
  /\ tempFileCount = 1
  /\ \E inOk \in BOOLEAN, outOk \in BOOLEAN :
       /\ outFile' = IF outOk
                     THEN File(IF inOk THEN tempFiles[0] ELSE <<>>)
                     ELSE outFile
       /\ IF inOk /\ outOk
          THEN /\ tempFiles' = RemoveFiles(tempFiles, {0})
               /\ sortResult' = TRUE
               /\ UNCHANGED failures
          ELSE /\ sortResult' = FALSE
               /\ failures' = failures
                                \cup (IF inOk THEN {} ELSE {"open_run"})
                                \cup (IF outOk THEN {} ELSE {"create_output"})
               /\ UNCHANGED tempFiles
  /\ pc' = "returned"
  /\ UNCHANGED <<env, inputPos, tempFileCount, linesProcessed, files,
                 exitCode, codecVars, histVars,
                 calcVars>>

\* FileEntry::readNext(), lines 138-149: the next well-formed line of the
\* run becomes the head; e.pos counts the lines getline has consumed
RECURSIVE readNext(_, _)
readNext(e, content) ==
  IF e.open /\ e.pos < Len(content)
  THEN LET r == parseKeyValue(content[e.pos + 1], e.currentPair) IN
         IF r.ok
         THEN [e EXCEPT !.pos = e.pos + 1, !.currentPair = r.pair,
                        !.hasNext = TRUE]
         ELSE readNext([e EXCEPT !.pos = e.pos + 1], content)
  ELSE [e EXCEPT !.hasNext = FALSE]

\* FileEntry(path), lines 134-136.  currentPair is default-initialized: its
\* originalIndex is never assigned anywhere, so it holds an indeterminate
\* value, here uninit.
FileEntry(content, open, uninit) ==
  readNext([open |-> open, pos |-> 0, currentPair |-> NewPair(uninit),
            hasNext |-> FALSE], content)

\* mergeTempFiles(N >= 2), lines 156-162: one iteration of the opening loop
MergeOpenFile ==
  /\ pc = "after_batches"
  /\ tempFileCount >= 2
  /\ Len(files) < tempFileCount
  /\ \E ok \in BOOLEAN, uninit \in 0..MaxGarbage :
       /\ files' = Append(files, FileEntry(tempFiles[Len(files)], ok, uninit))
       /\ IF ok
          THEN /\ pc' = IF Len(files) + 1 = tempFileCount
                        THEN "merge_output" ELSE "after_batches"
               /\ UNCHANGED <<sortResult, failures>>
          ELSE /\ pc' = "returned"
               /\ sortResult' = FALSE
               /\ failures' = failures \cup {"open_run"}
  /\ UNCHANGED <<env, inputPos, tempFileCount, linesProcessed, tempFiles,
                 outFile, exitCode, codecVars, histVars,
                 calcVars>>

\* lines 165-169: create the output file
MergeCreateOutput ==
  /\ pc = "merge_output"
  /\ \E ok \in BOOLEAN :
       IF ok
       THEN /\ outFile' = File(<<>>)
            /\ pc' = "merge_loop"
            /\ UNCHANGED <<sortResult, failures>>
       ELSE /\ pc' = "returned"
            /\ sortResult' = FALSE
            /\ failures' = failures \cup {"create_output"}
            /\ UNCHANGED outFile
  /\ UNCHANGED <<env, inputPos, tempFileCount, linesProcessed, tempFiles,
                 files, exitCode, codecVars, histVars,
                 calcVars>>

\* Replaces with the key comparison turned around
Replaces_Greater(i, minIndex, foundValid) ==
  \/ ~foundValid
  \/ files[i + 1].currentPair.key > files[minIndex + 1].currentPair.key
  \/ /\ files[i + 1].currentPair.key = files[minIndex + 1].currentPair.key
     /\ files[i + 1].currentPair.originalIndex
          < files[minIndex + 1].currentPair.originalIndex

\* Replaces that also replaces on equal originalIndex fields
Replaces_NotStrict(i, minIndex, foundValid) ==
  \/ ~foundValid
  \/ files[i + 1].currentPair.key < files[minIndex + 1].currentPair.key
  \/ /\ files[i + 1].currentPair.key = files[minIndex + 1].currentPair.key
     /\ files[i + 1].currentPair.originalIndex
          <= files[minIndex + 1].currentPair.originalIndex

\* lines 179-182: does the head of run i (0-based) replace candidate minIndex
Replaces(i, minIndex, foundValid) ==
  \/ ~foundValid
  \/ files[i + 1].currentPair.key < files[minIndex + 1].currentPair.key
  \/ /\ files[i + 1].currentPair.key = files[minIndex + 1].currentPair.key
     /\ files[i + 1].currentPair.originalIndex
          < files[minIndex + 1].currentPair.originalIndex

\* lines 174-187: the scan for the run with the minimal head, from run i on
RECURSIVE ScanMin(_, _, _)
ScanMin(i, minIndex, foundValid) ==
  IF i >= Len(files)
  THEN [minIndex |-> minIndex, foundValid |-> foundValid]
  ELSE IF files[i + 1].hasNext /\ Replaces(i, minIndex, foundValid)
       THEN ScanMin(i + 1, i, TRUE)
       ELSE ScanMin(i + 1, minIndex, foundValid)

\* lines 172-198: one iteration of the merge loop that finds a head
MergeStep ==
  /\ pc = "merge_loop"
  /\ LET m == ScanMin(0, 0, FALSE) IN
       /\ m.foundValid
       /\ outFile' = File(Append(outFile.lines,
                                  FormatLine(files[m.minIndex + 1].currentPair)))
       /\ files' = [files EXCEPT ![m.minIndex + 1] =
                      readNext(files[m.minIndex + 1], tempFiles[m.minIndex])]
       /\ lastMerge' = [run |-> m.minIndex, heads |-> files]
  /\ UNCHANGED <<env, pc, inputPos, tempFileCount, linesProcessed, tempFiles,
                 sortResult, exitCode, failures, accepted, written,
                 codecVars, calcVars>>

\* MergeFinish that leaves the loop whether or not a head was found
MergeFinish_Early ==
  /\ pc = "merge_loop"
  /\ tempFiles' = RemoveFiles(tempFiles, 0..(tempFileCount - 1))
  /\ files' = [i \in 1..Len(files) |-> [files[i] EXCEPT !.open = FALSE]]
  /\ sortResult' = TRUE
  /\ pc' = "returned"
  /\ UNCHANGED <<env, inputPos, tempFileCount, linesProcessed, outFile,
                 exitCode, failures, codecVars, histVars,
                 calcVars>>

\* lines 189-191 and 200-208: no head is left; close and remove the runs
MergeFinish ==
  /\ pc = "merge_loop"
  /\ ~ScanMin(0, 0, FALSE).foundValid
  /\ tempFiles' = RemoveFiles(tempFiles, 0..(tempFileCount - 1))
  /\ files' = [i \in 1..Len(files) |-> [files[i] EXCEPT !.open = FALSE]]
  /\ sortResult' = TRUE
  /\ pc' = "returned"
  /\ UNCHANGED <<env, inputPos, tempFileCount, linesProcessed, outFile,
                 exitCode, failures, codecVars, histVars,
                 calcVars>>

\* main(), lines 263-276: the exit status
Main ==
  /\ pc = "returned"
  /\ exitCode' = IF sortResult THEN 0 ELSE 1
  /\ pc' = "exit"
  /\ UNCHANGED <<env, inputPos, tempFileCount, linesProcessed, tempFiles,
                 outFile, files, sortResult, failures, codecVars, histVars,
                 calcVars>>

Next ==
  \/ SortOpenInput
  \/ SortBatch
  \/ SortNoRuns
  \/ MergeOneFile
  \/ MergeOpenFile
  \/ MergeCreateOutput
  \/ MergeStep
  \/ MergeFinish
  \/ Main

Spec == Init /\ [][Next]_vars

\* the process runs on as long as it has a step to take: it is sequential
\* and nothing in it waits
LiveSpec == Init /\ [][Next]_vars /\ WF_vars(Next)

TypeOK ==
  /\ pc \in {"sort", "batch", "after_batches", "merge_output", "merge_loop",
             "returned", "exit", "parse", "parsed", "calc", "evaluate",
             "evaluated", "fill", "full"}
  /\ inputPos \in 0..Len(inputFile)
  /\ tempFileCount \in 0..Len(inputFile)
  /\ DOMAIN tempFiles \subseteq 0..(tempFileCount - 1)
  /\ sortResult \in BOOLEAN
  /\ outFile.exists \in BOOLEAN
  /\ exitCode \in {-1, 0, 1}

\* ------------------------------------------- the codec called on its own
\* the characters a line given to parseKeyValue is made of
Chars == {"0", "1", ":", "a", "-", "+", " "}

ParseInit ==
  /\ line \in BoundedSeq(Chars, MaxLineLen)
  /\ pair = NewPair(0)
  /\ parsed = FALSE
  /\ pc = "parse"
  /\ inputFile = <<>>
  /\ BATCH_SIZE = 1
  /\ outFile = NoFile
  /\ outBefore = NoFile
  /\ inputPos = 0
  /\ tempFileCount = 0
  /\ linesProcessed = 0
  /\ tempFiles = <<>>
  /\ files = <<>>
  /\ sortResult = FALSE
  /\ exitCode = -1
  /\ failures = {}
  /\ accepted = <<>>
  /\ written = <<>>
  /\ lastMerge = NoMerge
  /\ CalcIdle

\* a call parseKeyValue(line, pair)
ParseCall ==
  /\ pc = "parse"
  /\ LET r == parseKeyValue(line, pair) IN
       /\ parsed' = r.ok
       /\ pair' = r.pair
  /\ pc' = "parsed"
  /\ UNCHANGED <<env, line, inputPos, tempFileCount, linesProcessed, tempFiles,
                 outFile, files, sortResult, exitCode, failures, histVars,
                 calcVars>>

ParseNext == ParseCall

ParseSpec == ParseInit /\ [][ParseNext]_vars

\* ------------------------------------------- the merge on any run files
\* mergeTempFiles(tempFileCount) started on up to MaxRuns run files of up to
\* MaxRunLen lines each, lines that do not parse among them: files that
\* were not left as sortBatch wrote them
MaxRuns == 2

MaxRunLen == 2

RunLines ==
  { <<"1", ":", "a">>, <<"2", ":", "a">>, <<"x">>, <<"1", "x", ":", "b">> }

MergeInit ==
  /\ pc = "after_batches"
  /\ tempFileCount \in 1..MaxRuns
  /\ tempFiles \in [0..(tempFileCount - 1) -> BoundedSeq(RunLines, MaxRunLen)]
  /\ inputFile = <<>>
  /\ BATCH_SIZE = MaxRunLen
  /\ outFile = NoFile
  /\ outBefore = NoFile
  /\ inputPos = 0
  /\ linesProcessed = 0
  /\ files = <<>>
  /\ sortResult = FALSE
  /\ exitCode = -1
  /\ failures = {}
  /\ accepted = <<>>
  /\ written = <<>>
  /\ lastMerge = NoMerge
  /\ line = <<>>
  /\ pair = NewPair(0)
  /\ parsed = FALSE
  /\ CalcIdle

MergeNext ==
  \/ MergeOneFile
  \/ MergeOpenFile
  \/ MergeCreateOutput
  \/ MergeStep
  \/ MergeFinish
  \/ Main

MergeSpec == MergeInit /\ [][MergeNext]_vars

\* ------------------------------------------------ calculator: the calls
\* no sorter and no stand-alone parseKeyValue call in progress
SorterIdle ==
  /\ inputFile = <<>>
  /\ BATCH_SIZE = 1
  /\ outFile = NoFile
  /\ outBefore = NoFile
  /\ inputPos = 0
  /\ tempFileCount = 0
  /\ linesProcessed = 0
  /\ tempFiles = <<>>
  /\ files = <<>>
  /\ sortResult = FALSE
  /\ exitCode = -1
  /\ failures = {}
  /\ accepted = <<>>
  /\ written = <<>>
  /\ lastMerge = NoMerge
  /\ line = <<>>
  /\ pair = NewPair(0)
  /\ parsed = FALSE

Ctx == [variables |-> variables, num_variables |-> num_variables]

Call(fn, name, value, expr) ==
  [fn |-> fn, name |-> name, value |-> value, expression |-> expr]

\* the names and values a caller passes to the variable store
Names == {"x", "y", "PI"}

Values == {Num(0), Num(1)}

\* a call calc_set_variable(ctx, name, value)
SetVariable(name, value) ==
  /\ LET r == calc_set_variable(Ctx, name, value) IN
       /\ variables' = r.ctx.variables
       /\ num_variables' = r.ctx.num_variables
       /\ calcErr' = r.err
       /\ calcCall' = Call("calc_set_variable", name, value, <<>>)
       /\ lastSet' = IF r.err = "CALC_SUCCESS"
                     THEN (name :> value) @@ lastSet
                     ELSE lastSet
  /\ UNCHANGED <<sorterVars, expression, calcResult, calcAst>>

\* a call calc_get_variable(ctx, name, &calcResult)
GetVariable(name) ==
  /\ LET r == calc_get_variable(Ctx, name, calcResult) IN
       /\ calcErr' = r.err
       /\ calcResult' = r.value
       /\ calcCall' = Call("calc_get_variable", name, Zero(1), <<>>)
  /\ UNCHANGED <<sorterVars, variables, num_variables, expression,
                 calcAst, lastSet>>

\* calc_set_variable(ctx, name, value)
CalcSetVariable ==
  /\ pc = "calc"
  /\ \E name \in Names, value \in Values : SetVariable(name, value)
  /\ UNCHANGED pc

\* calc_get_variable(ctx, name, &calcResult)
CalcGetVariable ==
  /\ pc = "calc"
  /\ \E name \in Names : GetVariable(name)
  /\ UNCHANGED pc

\* calc_evaluate(ctx, expr, &calcResult), the caller's last call
CalcEvaluate(expr) ==
  /\ \E r \in {calc_evaluate(Ctx, expr, calcResult)} :
       /\ calcErr' = r.err
       /\ calcResult' = r.result
       /\ calcAst' = r.ast
  /\ calcCall' = Call("calc_evaluate", "", Zero(1), expr)
  /\ pc' = "evaluated"
  /\ UNCHANGED <<sorterVars, variables, num_variables, expression, lastSet>>

\* Expressions over variables: up to MaxTerms operands joined by + and /
MaxTerms == 3

StoreOperands == {"x", "y", "PI"}

RECURSIVE Chains(_, _, _)
Chains(operands, ops, n) ==
  IF n = 1 THEN operands
  ELSE With(Chains(operands, ops, n - 1), LAMBDA shorter :
         shorter \cup {c \o <<op>> \o o :
                         c \in shorter, op \in ops, o \in operands})

StoreExprs == Chains({<<o>> : o \in StoreOperands}, {"+", "/"}, MaxTerms)

CalcEvaluateStored ==
  /\ pc = "calc"
  /\ \E expr \in StoreExprs : CalcEvaluate(expr)

\* a caller that sets and reads variables, then evaluates one expression
CalcInit ==
  /\ SorterIdle
  /\ CalcIdle
  /\ pc = "calc"

CalcNext ==
  \/ CalcSetVariable
  \/ CalcGetVariable
  \/ CalcEvaluateStored

CalcSpec == CalcInit /\ [][CalcNext]_vars

\* ---------------------------------------- calculator: the store filled up
\* a caller that sets variables of its own, v1, v2, ..., until the store
\* is within MaxFree entries of MAX_VARIABLES or full, and then sets and
\* reads some of them and some names not yet stored
MaxFree == 2

Name(i) == "v" \o ToString(i)

FullNames ==
  {Name(1), Name(MAX_VARIABLES)}
    \cup {Name(MAX_VARIABLES + i) : i \in 1..MaxFree}

FullInit ==
  /\ SorterIdle
  /\ CalcIdle
  /\ pc = "fill"

FillVariable ==
  /\ pc = "fill"
  /\ SetVariable(Name(num_variables + 1), Num(0))
  /\ pc' \in IF num_variables' >= MAX_VARIABLES THEN {"full"}
             ELSE IF num_variables' >= MAX_VARIABLES - MaxFree
             THEN {"fill", "full"}
             ELSE {"fill"}

FullSetVariable ==
  /\ pc = "full"
  /\ \E name \in FullNames, value \in Values : SetVariable(name, value)
  /\ UNCHANGED pc

FullGetVariable ==
  /\ pc = "full"
  /\ \E name \in FullNames : GetVariable(name)
  /\ UNCHANGED pc

FullNext ==
  \/ FillVariable
  \/ FullSetVariable
  \/ FullGetVariable

FullSpec == FullInit /\ [][FullNext]_vars

\* ------------------------------------------------------------ properties
Returned == pc \in {"returned", "exit"}

Succeeded == Returned /\ sortResult

\* the records of a file: the pairs of its lines that parse, in file order
RECURSIVE RecordsOf(_)
RecordsOf(lines) ==
  IF lines = <<>> THEN <<>>
  ELSE LET r == parseKeyValue(Head(lines), NewPair(0)) IN
         (IF r.ok THEN <<[key |-> r.pair.key, value |-> r.pair.value]>> ELSE <<>>)
           \o RecordsOf(Tail(lines))

Keys(recs) == {recs[i].key : i \in 1..Len(recs)}

\* the values of the records with key k, in order
RECURSIVE ValuesOf(_, _)
ValuesOf(recs, k) ==
  IF recs = <<>> THEN <<>>
  ELSE (IF Head(recs).key = k THEN <<Head(recs).value>> ELSE <<>>)
         \o ValuesOf(Tail(recs), k)

\* a can be had from b by deleting elements
RECURSIVE IsSubseq(_, _)
IsSubseq(a, b) ==
  IF a = <<>> THEN TRUE
  ELSE IF b = <<>> THEN FALSE
  ELSE IF Head(a) = Head(b) THEN IsSubseq(Tail(a), Tail(b))
  ELSE IsSubseq(a, Tail(b))

Count(seq, x) == Cardinality({i \in 1..Len(seq) : seq[i] = x})

SameMultiset(a, b) ==
  /\ Len(a) = Len(b)
  /\ \A i \in 1..Len(a) : Count(a, a[i]) = Count(b, a[i])

SortedByKey(recs) ==
  \A i \in 1..(Len(recs) - 1) : recs[i].key <= recs[i + 1].key

\* C1: after a successful sort, records with equal keys are in the output in
\* the relative order they have in the input, also across runs: for every
\* key, the values the output lists under it are in input order.
C1_StableOutput ==
  Succeeded =>
    \A k \in Keys(RecordsOf(outFile.lines)) :
      IsSubseq(ValuesOf(RecordsOf(outFile.lines), k),
               ValuesOf(RecordsOf(inputFile), k))

\* C2: after a successful sort, every output line is a record and adjacent
\* output records have non-decreasing keys, for 0, 1 or N >= 2 runs.
C2_OutputSorted ==
  Succeeded =>
    /\ outFile.exists
    /\ Len(RecordsOf(outFile.lines)) = Len(outFile.lines)
    /\ SortedByKey(RecordsOf(outFile.lines))

C2_Witness ==
  /\ Succeeded
  /\ tempFileCount >= 2
  /\ Len(outFile.lines) = 3
  /\ RecordsOf(inputFile)[1].key > RecordsOf(inputFile)[Len(RecordsOf(inputFile))].key

\* C3: after a successful sort, the (key, value) pairs of the output are, as
\* a multiset, those of the input lines that parse.
C3_Conservation ==
  Succeeded => SameMultiset(RecordsOf(outFile.lines), RecordsOf(inputFile))

\* C4: once an open or a creation of a file has failed, sort() returns
\* failure and main exits with status 1.
C4_FailureIsFatal ==
  /\ (Returned /\ failures # {}) => ~sortResult
  /\ (pc = "exit" /\ failures # {}) => exitCode = 1

\* C5: when sort() has returned success, no run file is left.
C5_NoRunLeftOnSuccess ==
  Succeeded => DOMAIN tempFiles = {}

C5_Witness ==
  /\ Succeeded
  /\ tempFileCount = 1
  /\ outFile.lines # <<>>
  /\ failures = {}

\* C6: when sort() has returned failure after writing a run file, no run
\* file is left.
C6_NoRunLeftOnFailure ==
  (Returned /\ ~sortResult /\ tempFileCount >= 1) => DOMAIN tempFiles = {}

\* C7: in every state the file at outputPath is what it was before the
\* program started, or the complete sorted output.
C7_OutputAtomic ==
  \/ outFile = outBefore
  \/ /\ outFile.exists
     /\ Len(RecordsOf(outFile.lines)) = Len(outFile.lines)
     /\ SortedByKey(RecordsOf(outFile.lines))
     /\ SameMultiset(RecordsOf(outFile.lines), RecordsOf(inputFile))

\* C8: when no line of the input parses, no run file is ever written, and
\* unless the input cannot be opened or the output cannot be created, sort()
\* returns success with an empty output file.
C8_EmptyInput ==
  RecordsOf(inputFile) = <<>> =>
    /\ tempFileCount = 0
    /\ DOMAIN tempFiles = {}
    /\ (Returned /\ failures = {}) => (sortResult /\ outFile = File(<<>>))

C8_Witness ==
  /\ Len(inputFile) = 2
  /\ RecordsOf(inputFile) = <<>>
  /\ pc = "exit"
  /\ exitCode = 0
  /\ outFile = File(<<>>)

\* the text before the first ':' of l is, in full, a decimal number
WellFormedLine(l) ==
  \E i \in 2..Len(l) : l[i] = ":" /\ \A j \in 1..(i - 1) : IsDigit(l[j])

\* C9: parseKeyValue returns false for every line without ':' and for every
\* line whose text before the first ':' is not in full a non-negative
\* decimal integer.
C9_RejectsMalformed ==
  (pc = "parsed" /\ ~WellFormedLine(line)) => ~parsed

\* C10: the value of a line that parses is the text after its first ':',
\* unchanged.
C10_ValueVerbatim ==
  (pc = "parsed" /\ parsed) =>
    \E i \in 1..Len(line) :
      /\ line[i] = ":"
      /\ \A j \in 1..(i - 1) : line[j] # ":"
      /\ pair.value = [k \in 1..(Len(line) - i) |-> line[i + k]]

C10_Witness ==
  /\ pc = "parsed"
  /\ parsed
  /\ pair.value = <<" ", ":">>

\* C11: a record read back from the line written for it is the record that
\* was written: every head of the merge equals, originalIndex included, the
\* element of the sorted batch that its line was formatted from.
C11_RoundTrip ==
  \A i \in 1..Len(files) :
    files[i].hasNext => files[i].currentPair = written[i - 1][files[i].pos]

\* the input is a file in the output format, sorted by key
InputIsSortedFile ==
  /\ FormatAll(RecordsOf(inputFile)) = inputFile
  /\ SortedByKey(RecordsOf(inputFile))

\* C12: sorting a file of the output format that is already sorted by key
\* gives an output equal to the input, line for line.
C12_Idempotent ==
  (Succeeded /\ failures = {} /\ InputIsSortedFile) => outFile.lines = inputFile

\* the merge phase has begun: a run was opened for reading or the output
\* file was created
MergeStarted ==
  \/ pc \in {"merge_output", "merge_loop"}
  \/ files # <<>>
  \/ Returned /\ "open_input" \notin failures

\* C13: the merge phase begins only when the batch phase has read the input
\* to its end.
C13_PhasesDoNotOverlap ==
  MergeStarted => inputPos = Len(inputFile)

\* C18: of two records accepted by the batch phase, the one read later has
\* the strictly larger originalIndex, within a window and across windows.
C18_IndexIncreases ==
  \A i \in 1..Len(accepted) : \A j \in (i + 1)..Len(accepted) :
    accepted[i].pair.originalIndex < accepted[j].pair.originalIndex

C18_Witness ==
  /\ BATCH_SIZE = 1
  /\ tempFileCount = 2
  /\ Len(accepted) = 3
  /\ accepted[3].lineNo = 2

\* C19 as stated: the accepted records are numbered 0, 1, 2, ... without
\* gaps, a malformed line taking no number.
C19_IndexesConsecutive ==
  \A i \in 1..Len(accepted) : accepted[i].pair.originalIndex = i - 1

\* C19 amended: a malformed line is skipped but takes a number: the
\* originalIndex of an accepted record is the 0-based number of its line in
\* the input, malformed lines counted.
C19_IndexIsLineNumber ==
  \A i \in 1..Len(accepted) :
    accepted[i].pair.originalIndex = accepted[i].lineNo

C19_Witness ==
  /\ Len(accepted) = 2
  /\ accepted[1].lineNo = 0
  /\ accepted[2].pair.originalIndex = 2
  /\ tempFileCount = 2

SortedByKeyAndIndex(batch) ==
  \A j \in 1..Len(batch) : \A k \in (j + 1)..Len(batch) :
    \/ batch[j].key < batch[k].key
    \/ /\ batch[j].key = batch[k].key
       /\ batch[j].originalIndex < batch[k].originalIndex

\* C20: the runs written are numbered 0..tempFileCount-1; each holds 1 to
\* BATCH_SIZE records in ascending (key, originalIndex) order, each but the
\* last exactly BATCH_SIZE; until the merger removes them the run files are
\* these runs, one line a record.
C20_RunShape ==
  /\ DOMAIN written = 0..(tempFileCount - 1)
  /\ \A i \in DOMAIN written :
       /\ Len(written[i]) \in 1..BATCH_SIZE
       /\ i < tempFileCount - 1 => Len(written[i]) = BATCH_SIZE
       /\ SortedByKeyAndIndex(written[i])
  /\ ~Returned =>
       /\ DOMAIN tempFiles = DOMAIN written
       /\ \A i \in DOMAIN tempFiles :
            /\ Len(tempFiles[i]) = Len(written[i])
            /\ RecordsOf(tempFiles[i]) =
                 [j \in 1..Len(written[i]) |->
                    [key |-> written[i][j].key, value |-> written[i][j].value]]

C20_Witness ==
  /\ pc = "after_batches"
  /\ BATCH_SIZE = 2
  /\ tempFileCount = 2
  /\ Len(written[0]) = 2
  /\ written[0][1].key = written[0][2].key
  /\ Len(written[1]) = 1

\* ------------------------------------- calculator: one evaluation
\* Expressions of up to MaxEvalLen lexemes that divide and take factorials
MaxEvalLen == 5

EvalLexemes == {"1", "x", "-", "/", "!", "(", ")"}

EvalExprs == BoundedSeq(EvalLexemes, MaxEvalLen)

\* Expressions of up to MaxSyntaxLen lexemes with brackets of every kind
MaxSyntaxLen == 4

SyntaxLexemes == {"1", "+", "!", "(", ")", "[", "]", "{", "}"}

SyntaxExprs == BoundedSeq(SyntaxLexemes, MaxSyntaxLen)

\* Well-formed infix expressions: up to MaxOps binary operators between
\* operands that are a number or a bracketed sum
MaxOps == 3

BinaryOps == {"+", "-", "*", "/", "^"}

InfixOperands == {<<"1">>, <<"2">>, <<"(", "1", "+", "1", ")">>}

InfixExprs == Chains(InfixOperands, BinaryOps, MaxOps + 1)

\* a caller that has set x to 0 and evaluates one expression
EvalInit ==
  /\ SorterIdle
  /\ variables = <<[name |-> "x", value |-> Num(0)]>>
  /\ num_variables = 1
  /\ lastSet = ("x" :> Num(0))
  /\ calcCall = Call("calc_set_variable", "x", Num(0), <<>>)
  /\ calcErr = "CALC_SUCCESS"
  /\ calcResult = Zero(1)
  /\ calcAst = NULL
  /\ expression \in EvalExprs \cup SyntaxExprs \cup InfixExprs
  /\ pc = "evaluate"

EvalCall ==
  /\ pc = "evaluate"
  /\ CalcEvaluate(expression)

EvalNext == EvalCall

EvalSpec == EvalInit /\ [][EvalNext]_vars

\* ------------------------------------------------- calculator claims
Evaluated == calcCall.fn = "calc_evaluate"

\* the identifiers an expression uses as variables and no set has stored
UnsetNamed(expr) ==
  {expr[i] : i \in {j \in 1..Len(expr) :
      /\ expr[j] \in IdentifierLexemes
      /\ (j = Len(expr) \/ expr[j + 1] # "(")
      /\ expr[j] \notin DOMAIN lastSet}}

\* calc_get_variable returns the value of the last set of the name, and
\* CALC_ERROR_UNDEFINED_VAR for a name never set
GetReturnsLastSet ==
  calcCall.fn = "calc_get_variable" =>
    IF calcCall.name \in DOMAIN lastSet
    THEN calcErr = "CALC_SUCCESS" /\ calcResult = lastSet[calcCall.name]
    ELSE calcErr = "CALC_ERROR_UNDEFINED_VAR"

\* a set of a stored name adds no second entry
OneEntryPerName ==
  /\ num_variables = Len(variables)
  /\ \A i, j \in 1..Len(variables) :
       variables[i].name = variables[j].name => i = j
  /\ {variables[i].name : i \in 1..Len(variables)} = DOMAIN lastSet

\* C14 as stated: after any sequence of calc_set_variable calls,
\* calc_get_variable returns CALC_SUCCESS with the value of the most recent
\* set of the name (a set of a stored name updates it in place) and
\* CALC_ERROR_UNDEFINED_VAR for a name never set, and evaluating an
\* expression that names an unset variable returns
\* CALC_ERROR_UNDEFINED_VAR.
C14_UnsetIsUndefined ==
  /\ GetReturnsLastSet
  /\ OneEntryPerName
  /\ (Evaluated /\ UnsetNamed(calcCall.expression) # {})
       => calcErr = "CALC_ERROR_UNDEFINED_VAR"

\* C14 amended: the same for calc_get_variable; evaluating an expression
\* that parses and names an unset variable other than PI never succeeds:
\* it returns CALC_ERROR_UNDEFINED_VAR, or CALC_ERROR_INVALID_OPERATION
\* where the expression also holds a division, a factorial or a function
\* call; the expression PI evaluates to the built-in constant.
C14_UnsetIsUndefinedExceptPI ==
  /\ GetReturnsLastSet
  /\ OneEntryPerName
  /\ (/\ Evaluated
      /\ calcErr # "CALC_ERROR_SYNTAX"
      /\ UnsetNamed(calcCall.expression) \ {"PI"} # {})
       => /\ calcErr \in {"CALC_ERROR_UNDEFINED_VAR",
                          "CALC_ERROR_INVALID_OPERATION"}
          /\ (\A i \in 1..Len(calcCall.expression) :
                calcCall.expression[i] \notin {"/", "!", "("})
               => calcErr = "CALC_ERROR_UNDEFINED_VAR"
  /\ (Evaluated /\ calcCall.expression = <<"PI">>)
       => calcErr = "CALC_SUCCESS" /\ calcResult = PI

\* y was set, x was set to 0 and then to 1, and a get of x returned 1
C14_Witness ==
  /\ calcCall = Call("calc_get_variable", "x", Zero(1), <<>>)
  /\ calcErr = "CALC_SUCCESS"
  /\ calcResult = Num(1)
  /\ variables = <<[name |-> "x", value |-> Num(1)],
                   [name |-> "y", value |-> Num(0)]>>


\* the operator nodes of a tree whose operation evaluator_evaluate performs,
\* every operand before it having been evaluated without error
RECURSIVE Performed(_)
Performed(node) ==
  LET Ok(n) == evaluator_evaluate(Ctx, n, Zero(1)).err = "CALC_SUCCESS" IN
  CASE node.type = "AST_UNARY_OP" ->
         Performed(node.operand)
           \cup (IF Ok(node.operand) THEN {node} ELSE {})
    [] node.type = "AST_BINARY_OP" ->
         Performed(node.left)
           \cup (IF Ok(node.left)
                 THEN Performed(node.right)
                        \cup (IF Ok(node.right) THEN {node} ELSE {})
                 ELSE {})
    [] OTHER -> {}

\* a division by zero or a factorial of a negative number
InvalidOperation(node) ==
  LET Value(n) == evaluator_evaluate(Ctx, n, Zero(1)).result IN
  \/ node.type = "AST_BINARY_OP" /\ node.oper = "/"
       /\ IsZero(Value(node.right))
  \/ node.type = "AST_UNARY_OP" /\ node.oper = "!"
       /\ IsNegative(Value(node.operand))

\* C15: evaluation returns CALC_ERROR_INVALID_OPERATION for every
\* expression in which a division whose right operand evaluates to zero,
\* or a factorial of a negative operand, is evaluated, also when the
\* operation is nested inside a larger expression.
C15_InvalidOperation ==
  (Evaluated /\ \E node \in Performed(calcAst) : InvalidOperation(node))
    => calcErr = "CALC_ERROR_INVALID_OPERATION"

\* 1 - 1 / x with x = 0: the division by zero is the right operand of a
\* subtraction
C15_Witness ==
  /\ Evaluated
  /\ calcCall.expression = <<"1", "-", "1", "/", "x">>
  /\ calcAst.type = "AST_BINARY_OP" /\ calcAst.oper = "-"
  /\ calcErr = "CALC_ERROR_INVALID_OPERATION"

\* a lexeme that can end an operand, so that an operator after it is binary
EndsOperand(lexeme) ==
  lexeme \in NumberLexemes \cup IdentifierLexemes \cup {")", "]", "}", "!"}

\* a binary operator directly followed by an operator other than - and !
ConsecutiveOperators(expr) ==
  \E i \in 2..(Len(expr) - 1) :
    /\ EndsOperand(expr[i - 1])
    /\ expr[i] \in BinaryOps
    /\ expr[i + 1] \in OperatorLexemes \ {"-", "!"}

Closer(open) == CASE open = "(" -> ")" [] open = "[" -> "]" [] open = "{" -> "}"

\* scanning from lexeme i with the brackets still open in stack: some
\* opening bracket meets a closing bracket of another kind or none at all
RECURSIVE UnmatchedFrom(_, _, _)
UnmatchedFrom(expr, i, stack) ==
  IF i > Len(expr) THEN stack # <<>>
  ELSE IF expr[i] \in {"(", "[", "{"}
       THEN UnmatchedFrom(expr, i + 1, Append(stack, expr[i]))
  ELSE IF expr[i] \in {")", "]", "}"} /\ stack # <<>>
       THEN IF Closer(stack[Len(stack)]) = expr[i]
            THEN UnmatchedFrom(expr, i + 1, SubSeq(stack, 1, Len(stack) - 1))
            ELSE TRUE
  ELSE UnmatchedFrom(expr, i + 1, stack)

UnmatchedOpening(expr) == UnmatchedFrom(expr, 1, <<>>)

\* parse_expression returns a tree and leaves lexemes unread
TokensLeft(expr) ==
  \E r \in {parse_expression(parser_create(lexer_create(expr)))} :
    ~IsNull(r.node) /\ r.parser.current_token.type # "TOKEN_EOF"

\* C16: calc_evaluate returns CALC_ERROR_SYNTAX for two consecutive binary
\* operators where the second is neither - nor !, for an opening bracket
\* of any kind without a closing bracket of the same kind, and for
\* lexemes left after a complete expression.
C16_SyntaxErrors ==
  (/\ Evaluated
   /\ \/ ConsecutiveOperators(calcCall.expression)
      \/ UnmatchedOpening(calcCall.expression)
      \/ TokensLeft(calcCall.expression))
    => calcErr = "CALC_ERROR_SYNTAX"

\* { 1 ) 1: a brace closed by a parenthesis
C16_Witness ==
  /\ Evaluated
  /\ calcCall.expression = <<"{", "1", ")", "1">>
  /\ UnmatchedOpening(calcCall.expression)
  /\ calcErr = "CALC_ERROR_SYNTAX"

\* the binding strength C17 gives the binary operators
Rank(op) == CASE op \in {"+", "-"} -> 1
              [] op \in {"*", "/"} -> 2
              [] op = "^" -> 3

\* number of brackets open before lexeme i
RECURSIVE Depth(_, _)
Depth(expr, i) ==
  IF i = 1 THEN 0
  ELSE Depth(expr, i - 1)
         + (IF expr[i - 1] = "(" THEN 1 ELSE 0)
         - (IF expr[i - 1] = ")" THEN 1 ELSE 0)

\* the binary operators of an infix expression outside every bracket
OuterOps(expr) ==
  {i \in 1..Len(expr) : expr[i] \in BinaryOps /\ Depth(expr, i) = 0}

\* the operator applied last: the rightmost of those that bind weakest
LastApplied(expr) ==
  CHOOSE i \in OuterOps(expr) :
    \A j \in OuterOps(expr) :
      \/ Rank(expr[i]) < Rank(expr[j])
      \/ Rank(expr[i]) = Rank(expr[j]) /\ j <= i

\* the tree C17 prescribes for a well-formed infix expression
RECURSIVE Grouping(_)
Grouping(expr) ==
  IF OuterOps(expr) # {}
  THEN With(LastApplied(expr), LAMBDA i :
       With(SubSeq(expr, 1, i - 1), LAMBDA before :
       With(SubSeq(expr, i + 1, Len(expr)), LAMBDA after :
         [type |-> "AST_BINARY_OP", oper |-> expr[i],
          left |-> Grouping(before), right |-> Grouping(after)])))
  ELSE IF Len(expr) = 1
  THEN [type |-> "AST_NUMBER", number |-> strtod(expr[1])]
  ELSE With(SubSeq(expr, 2, Len(expr) - 1), LAMBDA inner : Grouping(inner))

\* C17: ^ binds tighter than * and /, which bind tighter than + and -; a
\* bracketed sub-expression is one operand; operators of equal precedence
\* group left to right.
C17_Precedence ==
  (Evaluated /\ calcCall.expression \in InfixExprs)
    => \E tree \in {Grouping(calcCall.expression)} :
         /\ calcAst = tree
         /\ calcErr = "CALC_SUCCESS"
              => calcResult = evaluator_evaluate(Ctx, tree, Zero(1)).result

\* 1 - 2 ^ 2 * 2 is 1 - ((2 ^ 2) * 2) = -7
C17_Witness ==
  /\ Evaluated
  /\ calcCall.expression = <<"1", "-", "2", "^", "2", "*", "2">>
  /\ calcErr = "CALC_SUCCESS"
  /\ calcResult = Num(-7)

\* ------------------------------------------------- merge loop claims
\* an iteration of the merge loop has written a record
Merged == lastMerge.run # -1

\* the runs that had a head when the last record to be merged was chosen
HeadsPresent ==
  {i \in 1..Len(lastMerge.heads) : lastMerge.heads[i].hasNext}

\* the head of run i (1-based) at that time
HeadOf(i) == lastMerge.heads[i].currentPair

\* the originalIndex the batch phase gave the record that is the head of run i
IndexGiven(i) == written[i - 1][lastMerge.heads[i].pos].originalIndex

\* C21: the record written by a step of the k-way merge is the head smallest
\* by key among the runs with a head and, among the heads of that key, the
\* one with the smallest originalIndex given in the batch phase.
C21_MergeSelectsMinimum ==
  Merged =>
    \A j \in HeadsPresent :
      \/ HeadOf(lastMerge.run + 1).key < HeadOf(j).key
      \/ /\ HeadOf(lastMerge.run + 1).key = HeadOf(j).key
         /\ IndexGiven(lastMerge.run + 1) <= IndexGiven(j)

\* C24: when the heads of two runs have equal key and equal originalIndex
\* fields, the head of the run with the lower batch index is written first.
C24_LowerRunFirst ==
  Merged =>
    \A j \in HeadsPresent :
      (/\ HeadOf(j).key = HeadOf(lastMerge.run + 1).key
       /\ HeadOf(j).originalIndex = HeadOf(lastMerge.run + 1).originalIndex)
        => lastMerge.run + 1 <= j

\* the head of run 0 was written while run 1 had a head with the same key
\* and the same originalIndex field
C24_Witness ==
  /\ lastMerge.run = 0
  /\ 2 \in HeadsPresent
  /\ HeadOf(2).key = HeadOf(1).key
  /\ HeadOf(2).originalIndex = HeadOf(1).originalIndex
  /\ Len(outFile.lines) >= 1

\* the well-formed lines of a sequence of lines, as the merge writes them
RECURSIVE WellFormedOf(_)
WellFormedOf(lines) ==
  IF lines = <<>> THEN <<>>
  ELSE (IF WellFormedLine(Head(lines))
        THEN <<FormatLine(parseKeyValue(Head(lines), NewPair(0)).pair)>>
        ELSE <<>>) \o WellFormedOf(Tail(lines))

\* the lines of run i (0-based) that the merge has still to write: its head,
\* when it has one, and the lines after it
StillToMerge(i) ==
  SubSeq(tempFiles[i],
         IF files[i + 1].hasNext THEN files[i + 1].pos ELSE files[i + 1].pos + 1,
         Len(tempFiles[i]))

RECURSIVE OverRuns(_, _)
OverRuns(Part(_), n) ==
  IF n = 0 THEN <<>> ELSE OverRuns(Part, n - 1) \o Part(n - 1)

NoHeadLeft == \A i \in 1..Len(files) : ~files[i].hasNext

\* one iteration of the batch loop: it ends the loop when its window yields
\* no record, and a window that yields fewer than BATCH_SIZE records, the
\* last one, becomes a run before the loop ends
BatchLoopStep ==
  pc = "batch" =>
    /\ Len(accepted') = Len(accepted) => pc' = "after_batches"
    /\ inputPos = Len(inputFile) => pc' = "after_batches"
    /\ (Len(accepted') > Len(accepted) /\ failures' = failures) =>
         /\ pc' = "batch"
         /\ tempFileCount' = tempFileCount + 1
         /\ Len(tempFiles'[tempFileCount]) = Len(accepted') - Len(accepted)
         /\ Len(accepted') - Len(accepted) < BATCH_SIZE
              => inputPos' = Len(inputFile)

\* one iteration of the merge loop: it ends the loop exactly when no run
\* has a head, and otherwise writes one record and reads on in one run
MergeLoopStep ==
  pc = "merge_loop" =>
    /\ pc' # "merge_loop" <=> NoHeadLeft
    /\ pc' = "merge_loop" =>
         /\ Len(outFile'.lines) = Len(outFile.lines) + 1
         /\ \E i \in 1..Len(files) :
              /\ files[i].hasNext
              /\ files'[i].pos > files[i].pos \/ ~files'[i].hasNext
              /\ \A j \in 1..Len(files) : j # i => files'[j] = files[j]

\* C22: sort() terminates for every finite input: the batch loop ends once
\* the input is exhausted (a window that yields no record ends it, a last
\* partial window is written as a run first), and the merge loop ends
\* exactly when no run has a head left, each iteration consuming one
\* record of one run.
C22_SortTerminates ==
  /\ <>(pc = "exit")
  /\ [][BatchLoopStep /\ MergeLoopStep]_vars

C22_Witness ==
  /\ pc = "exit"
  /\ sortResult
  /\ tempFileCount >= 2
  /\ Len(written[tempFileCount - 1]) < BATCH_SIZE
  /\ Len(outFile.lines) = Len(accepted)
  /\ lastMerge.run # -1

\* ------------------------------------------------------- the full store
StoredNames == {variables[i].name : i \in 1..num_variables}

StoreWithinCapacity ==
  /\ num_variables <= MAX_VARIABLES
  /\ Len(variables) = num_variables
  /\ \A i, j \in 1..num_variables :
       variables[i].name = variables[j].name => i = j

\* a step that is a call of calc_set_variable, by what the caller sees
SetOnStore ==
  calcCall'.fn = "calc_set_variable" =>
    IF calcCall'.name \in StoredNames
    THEN /\ calcErr' = "CALC_SUCCESS"
         /\ num_variables' = num_variables
         /\ \A i \in 1..num_variables :
              /\ variables'[i].name = variables[i].name
              /\ variables'[i].value =
                   IF variables[i].name = calcCall'.name
                   THEN calcCall'.value ELSE variables[i].value
    ELSE IF num_variables = MAX_VARIABLES
    THEN /\ calcErr' = "CALC_ERROR_SYNTAX"
         /\ num_variables' = num_variables
         /\ variables' = variables
    ELSE /\ calcErr' = "CALC_SUCCESS"
         /\ num_variables' = num_variables + 1

\* C25: the store never holds more than MAX_VARIABLES entries and never two
\* entries of one name; calc_set_variable of a name not stored, on a full
\* store, returns CALC_ERROR_SYNTAX and leaves every stored name and value
\* as it was, and calc_set_variable of a stored name succeeds also on a
\* full store and changes that entry's value only.
C25_StoreCapacity == []StoreWithinCapacity /\ [][SetOnStore]_vars

C25_Witness ==
  /\ num_variables = MAX_VARIABLES
  /\ calcCall.fn = "calc_set_variable"
  /\ calcErr = "CALC_ERROR_SYNTAX"
  /\ calcCall.name \notin StoredNames
  /\ Name(1) \in DOMAIN lastSet
  /\ lastSet[Name(1)] = Num(1)

====
